---- MODULE Spec2Model ----
(***************************************************************************)
(* gcpdiag lint rule gce/warn/2025_001: "Serial logs don't contain time    *)
(* synchronization errors".                                                *)
(*                                                                         *)
(* The module models prepare_rule and run_rule of                          *)
(* warn_2025_001_time_synchronization_errors.py together with the          *)
(* serial-log search session (utils.SerialOutputSearch) the rule registers *)
(* in logs_by_project and queries with get_last_match.  Text is modelled   *)
(* as sequences of one-character strings so that substring search is       *)
(* computed, character by character, as the code computes it.              *)
(***************************************************************************)
EXTENDS Naturals, Sequences, FiniteSets

VARIABLES
  logs_by_project,  \* module-level dict: project id -> index of its search session
  sessions,         \* every SerialOutputSearch object constructed so far
  fetches,          \* per project: bulk fetches started at the log source
  calls,            \* per invocation of run_rule: position, context, reporter
  scan,             \* input and output of one fetch-and-scan pass (SpecScan)
  probe             \* one log line put through filter and PatternSet (SpecFilter)

vars == <<logs_by_project, sessions, fetches, calls, scan, probe>>

(***************************************************************************)
(* Bounds of the model.                                                    *)
(***************************************************************************)
NumCalls == 2      \* invocations of run_rule in one behaviour
MaxPrepares == 2   \* invocations of prepare_rule in one behaviour
MaxFetchLen == 2   \* lines returned by one bulk fetch (Spec)
MaxLogLen == 3     \* lines of the log scanned in SpecScan
MaxTs == 2         \* distinct timestamps

(***************************************************************************)
(* Text.                                                                   *)
(***************************************************************************)
\* TIME_SYNC_ERROR_MESSAGES, in source order.  The eighth entry is a raw
\* string literal: its backslash is part of the pattern.
TIME_SYNC_ERROR_MESSAGES ==
  << <<"t","i","m","e"," ","m","a","y"," ","b","e"," ","o","u","t"," ","o","f"," ","s","y","n","c">>,
     <<"S","y","s","t","e","m"," ","c","l","o","c","k"," ","i","s"," ","u","n","s","y","n","c","h","r","o","n","i","z","e","d">>,
     <<"T","i","m","e"," ","d","r","i","f","t"," ","d","e","t","e","c","t","e","d">>,
     <<"n","o"," ","s","e","r","v","e","r","s"," ","c","a","n"," ","b","e"," ","u","s","e","d",","," ","s","y","s","t","e","m"," ","c","l","o","c","k"," ","u","n","s","y","n","c","h","r","o","n","i","z","e","d">>,
     <<"t","i","m","e"," ","r","e","s","e","t">>,
     <<"S","y","s","t","e","m"," ","c","l","o","c","k"," ","u","n","s","y","n","c","h","r","o","n","i","z","e","d">>,
     <<"T","i","m","e"," ","o","f","f","s","e","t"," ","t","o","o"," ","l","a","r","g","e">>,
     <<"C","a","n","\\","'","t"," ","s","y","n","c","h","r","o","n","i","s","e",":"," ","n","o"," ","s","e","l","e","c","t","a","b","l","e"," ","s","o","u","r","c","e","s">>,
     <<"C","l","o","c","k"," ","s","k","e","w"," ","d","e","t","e","c","t","e","d">>,
     <<"C","l","o","c","k"," ","s","k","e","w"," ","t","o","o"," ","g","r","e","a","t">>,
     <<"C","o","u","l","d"," ","n","o","t"," ","r","e","c","e","i","v","e"," ","l","a","t","e","s","t"," ","l","o","g"," ","t","i","m","e","s","t","a","m","p"," ","f","r","o","m"," ","s","e","r","v","e","r">> >>

\* The quoted phrases of filter_str, in source order.
FILTER_PHRASES ==
  << <<"t","i","m","e"," ","m","a","y"," ","b","e"," ","o","u","t"," ","o","f"," ","s","y","n","c">>,
     <<"S","y","s","t","e","m"," ","c","l","o","c","k"," ","i","s"," ","u","n","s","y","n","c","h","r","o","n","i","z","e","d">>,
     <<"T","i","m","e"," ","d","r","i","f","t"," ","d","e","t","e","c","t","e","d">>,
     <<"n","o"," ","s","e","r","v","e","r","s"," ","c","a","n"," ","b","e"," ","u","s","e","d">>,
     <<"t","i","m","e"," ","r","e","s","e","t">>,
     <<"T","i","m","e"," ","o","f","f","s","e","t"," ","t","o","o"," ","l","a","r","g","e">>,
     <<"C","a","n","'","t"," ","s","y","n","c","h","r","o","n","i","s","e">>,
     <<"C","l","o","c","k"," ","s","k","e","w"," ","d","e","t","e","c","t","e","d">>,
     <<"C","l","o","c","k"," ","s","k","e","w"," ","t","o","o"," ","g","r","e","a","t">>,
     <<"C","o","u","l","d"," ","n","o","t"," ","r","e","c","e","i","v","e"," ","l","a","t","e","s","t"," ","l","o","g"," ","t","i","m","e","s","t","a","m","p">> >>

\* line[i+1 .. i+Len(pat)] = pat for some offset i: Python's `pat in line`.
Contains(line, pat) ==
  \E i \in 0..(Len(line) - Len(pat)) : SubSeq(line, i + 1, i + Len(pat)) = pat

\* The literal text a pattern matches when read as a regular expression: a
\* backslash escapes the character after it.  No pattern of the rule holds
\* any other metacharacter.
RECURSIVE RegexLiteral(_)
RegexLiteral(p) ==
  IF p = <<>> THEN <<>>
  ELSE IF Head(p) = "\\" /\ Len(p) >= 2
       THEN <<p[2]>> \o RegexLiteral(SubSeq(p, 3, Len(p)))
       ELSE <<Head(p)>> \o RegexLiteral(Tail(p))

\* PatternSet.matches: some pattern is found in the line as a substring or
\* as a regular-expression match.
Matches(line) ==
  \E k \in 1..Len(TIME_SYNC_ERROR_MESSAGES) :
    \/ Contains(line, TIME_SYNC_ERROR_MESSAGES[k])
    \/ Contains(line, RegexLiteral(TIME_SYNC_ERROR_MESSAGES[k]))

\* textPayload:("a" OR "b" OR ...): the line holds one of the phrases.
FilterPasses(line) ==
  \E k \in 1..Len(FILTER_PHRASES) : Contains(line, FILTER_PHRASES[k])

\* Serial console lines a fetch may return.
TextDrift == <<"T","i","m","e"," ","d","r","i","f","t"," ","d","e","t","e","c","t","e","d">>
TextReset == <<"n","t","p","d",":"," ","t","i","m","e"," ","r","e","s","e","t">>
TextChrony == <<"c","h","r","o","n","y","d",":"," ","S","y","s","t","e","m"," ","c","l","o","c","k"," ","u","n","s","y","n","c","h","r","o","n","i","z","e","d">>
TextBoot == <<"S","t","a","r","t","e","d"," ","S","e","s","s","i","o","n"," ","1">>

\* All four lines are scanned in SpecScan; a bulk fetch of Spec draws from
\* the three of FetchTexts.
LogTexts == {TextDrift, TextReset, TextChrony, TextBoot}
FetchTexts == {TextDrift, TextChrony, TextBoot}

\* PatternSet.matches and the filter, tabulated once over the lines in use.
MatchTable == [x \in LogTexts |-> Matches(x)]
FilterTable == [x \in LogTexts |-> FilterPasses(x)]

(***************************************************************************)
(* Instances and contexts.                                                 *)
(***************************************************************************)
Projects == {"p1"}
InstanceIds == {"i1", "i2"}
InstanceNames == {<<"a">>, <<"a", "b">>}
Instance == [id : InstanceIds, name : InstanceNames]

\* gce.get_instances(context).values(): the instances in scope in the order
\* the mapping enumerates them; ids are the keys, so no id repeats.
Enumerations ==
  {e \in UNION {[1..n -> Instance] : n \in 0..Cardinality(InstanceIds)} :
     \A i, j \in DOMAIN e : i # j => e[i].id # e[j].id}

\* Python compares str values by code point, a proper prefix first.
Ord(ch) == IF ch = "a" THEN 97 ELSE 98

RECURSIVE StrLess(_, _)
StrLess(a, b) ==
  IF b = <<>> THEN FALSE
  ELSE IF a = <<>> THEN TRUE
  ELSE IF Ord(Head(a)) # Ord(Head(b)) THEN Ord(Head(a)) < Ord(Head(b))
  ELSE StrLess(Tail(a), Tail(b))

\* sorted(instances, key=lambda i: i.name): stable, so instances of equal
\* name keep their enumeration order.
InsertByName(s, x) ==
  LET k == Cardinality({j \in DOMAIN s : ~StrLess(x.name, s[j].name)})
  IN  SubSeq(s, 1, k) \o <<x>> \o SubSeq(s, k + 1, Len(s))

\* The enumeration order, unsorted.
SortedByNameUnsorted(e) == e

RECURSIVE SortedByName(_)
SortedByName(e) ==
  IF e = <<>> THEN <<>>
  ELSE InsertByName(SortedByName(SubSeq(e, 1, Len(e) - 1)), e[Len(e)])

(***************************************************************************)
(* The search session: utils.SerialOutputSearch.                           *)
(***************************************************************************)
Timestamps == 1..MaxTs
LogEntry(texts) ==
  [instance_id : InstanceIds, timestamp : Timestamps, text : texts]

SeqsUpTo(S, n) == UNION {[1..k -> S] : k \in 0..n}

\* What the log source holds for a context when the bulk fetch runs.
SourceLogs == SeqsUpTo(LogEntry(FetchTexts), MaxFetchLen)

\* The lines the source returns under custom_filter.
Fetched(log) == SelectSeq(log, LAMBDA e : FilterTable[e.text])

\* The match handed to the rule: LogEntryShort(timestamp_iso, text).
Short(e) == [timestamp_iso |-> e.timestamp, text |-> e.text]

\* The pass with a strict comparison: of matching lines of equal timestamp
\* it keeps the earlier one.
RECURSIVE ScanKeepFirst(_, _, _)
ScanKeepFirst(lines, i, best) ==
  IF lines = <<>> THEN best
  ELSE LET e == Head(lines)
           keep == /\ e.instance_id = i
                   /\ MatchTable[e.text]
                   /\ \A b \in best : e.timestamp > b.timestamp_iso
       IN  ScanKeepFirst(Tail(lines), i, IF keep THEN {Short(e)} ELSE best)

\* One pass over the fetched lines of instance i, in fetch order, keeping
\* the matching line of greatest timestamp; a later line of equal timestamp
\* replaces an earlier one.  {} is None.
RECURSIVE Scan(_, _, _)
Scan(lines, i, best) ==
  IF lines = <<>> THEN best
  ELSE LET e == Head(lines)
           keep == /\ e.instance_id = i
                   /\ MatchTable[e.text]
                   /\ \A b \in best : e.timestamp >= b.timestamp_iso
       IN  Scan(Tail(lines), i, IF keep THEN {Short(e)} ELSE best)

LastMatch(lines, i) == Scan(lines, i, {})

\* SerialOutputSearch(context, search_strings, custom_filter): a session
\* that has fetched nothing yet.
NewSearch(p) ==
  [project |-> p, state |-> "new", results |-> [i \in InstanceIds |-> {}]]

(***************************************************************************)
(* The rule.                                                               *)
(***************************************************************************)
Calls == 1..NumCalls

\* One call on the reporter.  add_skipped(None, reason) has no resource;
\* add_failed carries the message built from the match; add_ok none.
Skipped(reason) ==
  [kind |-> "skipped", resource |-> {}, reason |-> reason, match |-> {}]
Failed(instance, m) ==
  [kind |-> "failed", resource |-> {instance},
   reason |-> "Time synchronization errors detected on instance", match |-> {m}]
Ok(instance) ==
  [kind |-> "ok", resource |-> {instance}, reason |-> "", match |-> {}]

\* The verdict that ignores the match.
ClassifyAlwaysOk(instance, match) == Ok(instance)

\* Lines 85-93: the verdict on one instance, given what get_last_match
\* returned for it.
Classify(instance, match) ==
  IF match # {}
  THEN Failed(instance, CHOOSE m \in match : TRUE)
  ELSE Ok(instance)

IdleCall ==
  [pc |-> "idle", project |-> "", available |-> FALSE, instances |-> <<>>,
   search |-> 0, todo |-> <<>>, idx |-> 0, report |-> <<>>, queries |-> <<>>,
   returned |-> <<>>, err |-> ""]

\* The rule without its availability test.
UnavailableNever(available) == FALSE

\* Lines 71-73: is_serial_port_one_logs_available(context) is false.
Unavailable(available) == ~available

\* The rule without its test for an empty scope.
NoInstancesNever(instances) == FALSE

\* Lines 78-80: `not instances`.
NoInstances(instances) == instances = <<>>

Init ==
  /\ logs_by_project = <<>>
  /\ sessions = <<>>
  /\ fetches = [p \in Projects |-> 0]
  /\ calls = [c \in Calls |-> IdleCall]
  /\ scan = <<>>
  /\ probe = <<>>

\* prepare_rule(context): a new session replaces whatever is registered
\* for the project.
prepare_rule(p) ==
  /\ Len(sessions) < MaxPrepares
  /\ sessions' = Append(sessions, NewSearch(p))
  /\ logs_by_project' =
       [q \in DOMAIN logs_by_project \cup {p} |->
          IF q = p THEN Len(sessions) + 1 ELSE logs_by_project[q]]
  /\ UNCHANGED <<fetches, calls, scan, probe>>

\* run_rule(context, report) up to the loop: lines 69-82.
run_rule(c, p, available, instances) ==
  /\ calls[c].pc = "idle"
  /\ LET started == [IdleCall EXCEPT !.project = p, !.available = available,
                                     !.instances = instances]
     IN calls' = [calls EXCEPT ![c] =
          IF Unavailable(available)
          THEN [started EXCEPT !.pc = "done",
                  !.report = <<Skipped("serial port output is unavailable")>>]
          ELSE IF p \notin DOMAIN logs_by_project
          THEN [started EXCEPT !.pc = "raised", !.err = "KeyError"]
          ELSE IF NoInstances(instances)
          THEN [started EXCEPT !.pc = "done", !.search = logs_by_project[p],
                  !.report = <<Skipped("No instances found")>>]
          ELSE LET todo == SortedByName(instances)
               IN [started EXCEPT !.search = logs_by_project[p],
                     !.todo = todo, !.idx = 1,
                     !.pc = IF todo = <<>> THEN "done" ELSE "loop"]]
  /\ UNCHANGED <<logs_by_project, sessions, fetches, scan, probe>>

\* Line 83: the call of search.get_last_match(instance_id=instance.id).  The
\* first query of a session starts its bulk fetch; a query that finds the
\* fetch in flight, or finished, starts none.
get_last_match(c) ==
  /\ calls[c].pc = "loop"
  /\ LET s == calls[c].search
         id == calls[c].todo[calls[c].idx].id
     IN IF sessions[s].state = "new"
        THEN /\ sessions' = [sessions EXCEPT ![s].state = "inflight"]
             /\ fetches' = [fetches EXCEPT ![sessions[s].project] = @ + 1]
             /\ calls' = [calls EXCEPT ![c].pc = "fetching",
                                       ![c].queries = Append(@, id)]
        ELSE /\ calls' = [calls EXCEPT ![c].pc = "waiting",
                                       ![c].queries = Append(@, id)]
             /\ UNCHANGED <<sessions, fetches>>
  /\ UNCHANGED <<logs_by_project, scan, probe>>

\* The bulk fetch ends: with the filtered lines, scanned into the result of
\* every instance, or with a failure, which the session keeps.
fetch_returns(c) ==
  /\ calls[c].pc = "fetching"
  /\ LET s == calls[c].search
     IN \/ \E log \in SourceLogs :
             sessions' = [sessions EXCEPT ![s].state = "done",
               ![s].results = [i \in InstanceIds |-> LastMatch(Fetched(log), i)]]
        \/ sessions' = [sessions EXCEPT ![s].state = "failed"]
  /\ calls' = [calls EXCEPT ![c].pc = "waiting"]
  /\ UNCHANGED <<logs_by_project, fetches, scan, probe>>

\* get_last_match returns, and lines 85-93 report the verdict; the loop
\* moves to the next instance or the rule returns.
verdict(c) ==
  /\ calls[c].pc = "waiting"
  /\ sessions[calls[c].search].state = "done"
  /\ LET instance == calls[c].todo[calls[c].idx]
         match == sessions[calls[c].search].results[instance.id]
     IN calls' = [calls EXCEPT
          ![c].returned = Append(@, match),
          ![c].report = Append(@, Classify(instance, match)),
          ![c].idx = @ + 1,
          ![c].pc = IF calls[c].idx = Len(calls[c].todo) THEN "done" ELSE "loop"]
  /\ UNCHANGED <<logs_by_project, sessions, fetches, scan, probe>>

\* get_last_match fails with the session's kept failure; run_rule catches
\* nothing, so the call ends there.
raises(c) ==
  /\ calls[c].pc = "waiting"
  /\ sessions[calls[c].search].state = "failed"
  /\ calls' = [calls EXCEPT ![c].pc = "raised", ![c].err = "FetchError"]
  /\ UNCHANGED <<logs_by_project, sessions, fetches, scan, probe>>

Next ==
  \/ \E p \in Projects : prepare_rule(p)
  \/ \E c \in Calls, p \in Projects, a \in BOOLEAN, e \in Enumerations :
       run_rule(c, p, a, e)
  \/ \E c \in Calls : get_last_match(c)
  \/ \E c \in Calls : fetch_returns(c)
  \/ \E c \in Calls : verdict(c)
  \/ \E c \in Calls : raises(c)

Spec == Init /\ [][Next]_vars

(***************************************************************************)
(* SpecScan: one fetch-and-scan pass of a session, on every log of up to   *)
(* MaxLogLen lines, followed by one get_last_match query.                  *)
(***************************************************************************)
ScanLogs == SeqsUpTo(LogEntry(LogTexts), MaxLogLen)

InitScan ==
  /\ logs_by_project = <<>>
  /\ sessions = <<>>
  /\ fetches = [p \in Projects |-> 0]
  /\ calls = [c \in Calls |-> IdleCall]
  /\ probe = <<>>
  /\ \E log \in ScanLogs :
       scan = [stage |-> "source", log |-> log, lines |-> <<>>,
               instance_id |-> "", result |-> {}]

\* The bulk fetch under custom_filter.
ScanFetch ==
  /\ scan.stage = "source"
  /\ scan' = [scan EXCEPT !.stage = "fetched", !.lines = Fetched(scan.log)]
  /\ UNCHANGED <<logs_by_project, sessions, fetches, calls, probe>>

\* get_last_match(instance_id=i) on the fetched lines.
ScanQuery(i) ==
  /\ scan.stage = "fetched"
  /\ scan' = [scan EXCEPT !.stage = "queried", !.instance_id = i,
                          !.result = LastMatch(scan.lines, i)]
  /\ UNCHANGED <<logs_by_project, sessions, fetches, calls, probe>>

NextScan ==
  \/ ScanFetch
  \/ \E i \in InstanceIds : ScanQuery(i)

SpecScan == InitScan /\ [][NextScan]_vars

(***************************************************************************)
(* SpecFilter: one serial console line put through the server-side filter  *)
(* of prepare_rule and, when the filter keeps it, through the PatternSet.  *)
(***************************************************************************)
ProbePrefixes == {<<>>, <<"n","t","p","d",":"," ">>}
ProbeSuffixes == {<<>>, <<".">>}
ProbeCores ==
  {TIME_SYNC_ERROR_MESSAGES[k] : k \in 1..Len(TIME_SYNC_ERROR_MESSAGES)}
    \cup {RegexLiteral(TIME_SYNC_ERROR_MESSAGES[k]) :
            k \in 1..Len(TIME_SYNC_ERROR_MESSAGES)}
    \cup {FILTER_PHRASES[k] : k \in 1..Len(FILTER_PHRASES)}
    \cup {TextBoot}
ProbeLines ==
  {a \o b \o c : a \in ProbePrefixes, b \in ProbeCores, c \in ProbeSuffixes}

InitFilter ==
  /\ logs_by_project = <<>>
  /\ sessions = <<>>
  /\ fetches = [p \in Projects |-> 0]
  /\ calls = [c \in Calls |-> IdleCall]
  /\ scan = <<>>
  /\ \E line \in ProbeLines :
       probe = [stage |-> "source", line |-> line, matched |-> FALSE]

\* The log source applies custom_filter: the line is fetched or dropped.
ProbeFetch ==
  /\ probe.stage = "source"
  /\ probe' = [probe EXCEPT
       !.stage = IF FilterPasses(probe.line) THEN "fetched" ELSE "dropped"]
  /\ UNCHANGED <<logs_by_project, sessions, fetches, calls, scan>>

\* The scan applies the PatternSet to a fetched line.
ProbeScan ==
  /\ probe.stage = "fetched"
  /\ probe' = [probe EXCEPT !.stage = "scanned",
                            !.matched = Matches(probe.line)]
  /\ UNCHANGED <<logs_by_project, sessions, fetches, calls, scan>>

NextFilter ==
  \/ ProbeFetch
  \/ ProbeScan

SpecFilter == InitFilter /\ [][NextFilter]_vars

(***************************************************************************)
(* Properties.                                                             *)
(***************************************************************************)
Started(c) == calls[c].pc # "idle"
Ended(c) == calls[c].pc \in {"done", "raised"}
UnavailableSkip == Skipped("serial port output is unavailable")
NoInstancesSkip == Skipped("No instances found")

\* C1, as stated: a run that returns for a context with zero instances in
\* scope has reported exactly the "No instances found" skip, whether or not
\* serial-port logs are available.
C1_AlwaysNoInstancesSkip ==
  \A c \in Calls :
    (calls[c].pc = "done" /\ calls[c].instances = <<>>)
      => calls[c].report = <<NoInstancesSkip>>

\* C1, amended: for a context with zero instances in scope the reporter
\* receives exactly one skip and no other entry: the "serial port output is
\* unavailable" skip when serial logs are unavailable, the "No instances
\* found" skip when they are available and prepare_rule has registered the
\* project; with logs available and no session registered, run_rule raises
\* KeyError and reports nothing.
C1_ZeroInstancesOneSkip ==
  \A c \in Calls :
    (Ended(c) /\ calls[c].instances = <<>>) =>
      IF ~calls[c].available
      THEN calls[c].pc = "done" /\ calls[c].report = <<UnavailableSkip>>
      ELSE IF calls[c].search # 0
      THEN calls[c].pc = "done" /\ calls[c].report = <<NoInstancesSkip>>
      ELSE /\ calls[c].pc = "raised"
           /\ calls[c].err = "KeyError"
           /\ calls[c].report = <<>>

C1_Witness ==
  \E c, d \in Calls :
    /\ calls[c].pc = "done" /\ calls[c].instances = <<>>
    /\ ~calls[c].available /\ calls[c].report = <<UnavailableSkip>>
    /\ calls[d].pc = "done" /\ calls[d].instances = <<>>
    /\ calls[d].available /\ calls[d].report = <<NoInstancesSkip>>

\* C2: a run for a context whose serial-port logs are unavailable reports
\* exactly one skip and nothing else, gives no instance a verdict and never
\* calls get_last_match, however many instances are in scope.
C2_UnavailableSingleSkip ==
  \A c \in Calls :
    (Started(c) /\ ~calls[c].available) =>
      /\ calls[c].pc = "done"
      /\ Len(calls[c].report) = 1
      /\ calls[c].report[1].kind = "skipped"
      /\ calls[c].report[1].resource = {}
      /\ calls[c].queries = <<>>
      /\ calls[c].returned = <<>>

C2_Witness ==
  \E c \in Calls :
    /\ calls[c].pc = "done" /\ ~calls[c].available
    /\ Len(calls[c].instances) = 2
    /\ calls[c].project \in DOMAIN logs_by_project
    /\ calls[c].report = <<UnavailableSkip>>

\* The verdict C3 expects for an instance, given the match get_last_match
\* returned: FAILED with the match's timestamp and text, OK for none.
ExpectedVerdict(instance, match) ==
  [kind |-> IF match = {} THEN "ok" ELSE "failed",
   resource |-> {instance},
   reason |-> IF match = {} THEN ""
              ELSE "Time synchronization errors detected on instance",
   match |-> match]

\* The report so far is exactly one verdict for each of the first
\* Len(report) instances of the run, each decided by what get_last_match
\* returned for that instance.
VerdictsSoFar(c) ==
  LET r == calls[c].report
      k == Len(r)
  IN /\ k = Len(calls[c].returned)
     /\ k <= Len(calls[c].instances)
     /\ \A j \in 1..k :
          /\ calls[c].returned[j] =
               sessions[calls[c].search].results[calls[c].todo[j].id]
          /\ r[j] = ExpectedVerdict(calls[c].todo[j], calls[c].returned[j])
     /\ \A i, j \in 1..k : i # j => r[i].resource # r[j].resource
     /\ \A j \in 1..k : \E n \in DOMAIN calls[c].instances :
          r[j].resource = {calls[c].instances[n]}

\* C3, as stated: a run that has ended for a prepared context with serial
\* logs available and at least one instance in scope has given every
\* instance a verdict.
C3_EveryInstanceVerdict ==
  \A c \in Calls :
    (Ended(c) /\ calls[c].available /\ calls[c].instances # <<>>
       /\ calls[c].err # "KeyError")
      => Len(calls[c].report) = Len(calls[c].instances)

\* C3, amended: with serial logs available, a session registered and at
\* least one instance in scope, every instance gets at most one verdict,
\* FAILED (carrying the match's timestamp and text) iff get_last_match
\* returned a match for it and OK otherwise, and no skip is emitted; a run
\* that returns has given every instance exactly one verdict; a run in
\* which get_last_match raises FetchError ends there with the instances
\* not yet reached left without a verdict, and a run for a project with no
\* registered session raises KeyError with no verdict at all.
C3_OneVerdictPerInstance ==
  \A c \in Calls :
    (Started(c) /\ calls[c].available /\ calls[c].instances # <<>>) =>
      IF calls[c].search = 0
      THEN calls[c].pc = "raised" /\ calls[c].err = "KeyError"
           /\ calls[c].report = <<>>
      ELSE /\ VerdictsSoFar(c)
           /\ calls[c].pc = "done"
                => Len(calls[c].report) = Len(calls[c].instances)
           /\ calls[c].pc = "raised"
                => /\ calls[c].err = "FetchError"
                   /\ sessions[calls[c].search].state = "failed"
                   /\ Len(calls[c].report) < Len(calls[c].instances)

C3_Witness ==
  \E c \in Calls :
    /\ calls[c].pc = "done" /\ calls[c].available
    /\ Len(calls[c].report) = 2
    /\ calls[c].report[1].kind = "failed"
    /\ calls[c].report[1].match = {[timestamp_iso |-> 2, text |-> TextDrift]}
    /\ calls[c].report[2].kind = "ok"

\* C4: for every context the log source sees at most one bulk fetch, over
\* any sequence of prepare_rule and run_rule calls.
C4_FetchAtMostOnce == \A p \in Projects : fetches[p] <= 1

\* C5: callers querying the same context concurrently share one fetch: no
\* two of them are each inside a bulk fetch of their own for that context,
\* and a caller that is not fetching waits for, or reads the finished
\* result of, the session of the caller that is.
C5_NoDuplicateFetch ==
  \A c, d \in Calls :
    (c # d /\ calls[c].pc = "fetching" /\ calls[d].pc \in {"fetching", "waiting"}
       /\ calls[c].project = calls[d].project)
      => calls[c].search = calls[d].search

\* C6: once a bulk fetch for a context has failed, the number of fetch
\* attempts for that context stays at one.
C6_FailureCached ==
  \A s \in DOMAIN sessions :
    sessions[s].state = "failed" => fetches[sessions[s].project] = 1

\* C7: a prepare_rule call never discards what the registered session of a
\* context has fetched or is fetching: once the registered session has left
\* its initial state, the session registered for that context after any
\* step has too.
C7_PrepareKeepsResults ==
  [][\A p \in DOMAIN logs_by_project :
       sessions[logs_by_project[p]].state # "new"
         => sessions'[logs_by_project'[p]].state # "new"]_vars

\* The positions of the fetched lines of instance i that match.
MatchingAt(lines, i) ==
  {k \in DOMAIN lines : lines[k].instance_id = i /\ MatchTable[lines[k].text]}

NameOf(c, id) ==
  LET n == CHOOSE n \in DOMAIN calls[c].instances : calls[c].instances[n].id = id
  IN calls[c].instances[n].name

NonDecreasing(names) ==
  \A i, j \in DOMAIN names : i < j => ~StrLess(names[j], names[i])

\* C9: within one run the verdicts reach the reporter in non-decreasing
\* order of instance name, whatever the enumeration order, and
\* get_last_match is queried in that same order: instance by instance,
\* each query followed by that instance's verdict.
C9_VerdictsInNameOrder ==
  \A c \in Calls :
    (Started(c) /\ calls[c].available /\ calls[c].instances # <<>>) =>
      LET r == calls[c].report
          q == calls[c].queries
      IN /\ Len(r) <= Len(q) /\ Len(q) <= Len(r) + 1
         /\ \A j \in DOMAIN r : \E x \in r[j].resource : x.id = q[j]
         /\ NonDecreasing([j \in DOMAIN q |-> NameOf(c, q[j])])
         /\ NonDecreasing([j \in DOMAIN r |->
                             NameOf(c, (CHOOSE x \in r[j].resource : TRUE).id)])

C9_Witness ==
  \E c \in Calls :
    /\ calls[c].pc = "done"
    /\ Len(calls[c].report) = 2
    /\ StrLess(calls[c].instances[2].name, calls[c].instances[1].name)
    /\ calls[c].queries = <<calls[c].instances[2].id, calls[c].instances[1].id>>

\* C10: the server-side filter drops no line the PatternSet matches.
C10_FilterKeepsMatches ==
  probe.stage = "dropped" => ~Matches(probe.line)
====
